---- MODULE Spec2Model ----
(***************************************************************************)
(* Cashflow extraction (cashflows.py) and the return solver (irr.py) of    *)
(* portfolio-returns, as state machines.                                   *)
(*                                                                         *)
(* Conventions of the model                                                *)
(*  - An account name "Assets:Brk:BND" is the sequence of its components   *)
(*    <<"Assets", "Brk", "BND">>.                                          *)
(*  - A Python Optional is a set with at most one element: None is {},     *)
(*    a present value v is {v}.                                            *)
(*  - A Decimal amount is an integer number of thousandths (mills) of the  *)
(*    currency unit, so that one cent is 10 and rounding to cents is real. *)
(*  - A date is a day number; the day after d is d + 1.                    *)
(***************************************************************************)
EXTENDS Integers, Sequences, FiniteSets, TLC

VARIABLES
    \* get_cashflows_by_asset_account: arguments
    entries, asset_account_map, start_date_inclusive, end_date_inclusive, price_map,
    \* get_cashflows_by_asset_account: locals, position and outcome
    pc, idx, cashflows_by_asset_account, returned,
    \* get_asset_account run on its own: arguments, position, outcome
    m_account, m_rules, m_pc, m_result,
    \* xnpv / xirr run on their own: arguments, position, outcome
    x_cashflows, x_rate, x_pc, x_value, x_outcome,
    \* get_cashflows and the branch of the main program that calls it: position
    \* and the list get_cashflows handed back
    g_pc, g_cashflows

extract_vars == <<entries, asset_account_map, start_date_inclusive, end_date_inclusive,
                  price_map, pc, idx, cashflows_by_asset_account, returned>>
mapper_vars == <<m_account, m_rules, m_pc, m_result>>
irr_vars == <<x_cashflows, x_rate, x_pc, x_value, x_outcome>>
main_vars == <<g_pc, g_cashflows>>
vars == <<extract_vars, mapper_vars, irr_vars, main_vars>>

----------------------------------------------------------------------------
(* Bounds of the model *)

\* dates are the days 1..MaxDate
MaxDate == 3
\* the ledger holds at most MaxTxns transactions
MaxTxns == 2
\* an asset_account_map handed to get_asset_account on its own has at most MaxRules rules
MaxRules == 2
\* a cashflow list handed to xnpv / xirr has at most MaxFlows elements
MaxFlows == 3
\* cashflows handed to xnpv / xirr lie at most MaxYears years after day 0
MaxYears == 2

Dates == 1..MaxDate
OptionalDates == {{}} \cup {{d} : d \in Dates}

----------------------------------------------------------------------------
(* Generic helpers *)

RECURSIVE SumSet(_, _)
\* the sum of f[x] over the finite set S
SumSet(f, S) ==
    IF S = {} THEN 0
    ELSE LET x == CHOOSE y \in S : TRUE IN f[x] + SumSet(f, S \ {x})

RECURSIVE SumSeq(_)
\* the sum of a sequence of integers, left to right
SumSeq(s) == IF s = <<>> THEN 0 ELSE Head(s) + SumSeq(Tail(s))

IsPrefix(p, s) == Len(p) <= Len(s) /\ SubSeq(s, 1, Len(p)) = p

----------------------------------------------------------------------------
(* Ledger data (beancount.core.data) *)

USD == "USD"
STK == "STK"
\* the currency argument of the extraction
currency == USD

Amount(n, c) == [number |-> n, currency |-> c]
\* a posting with its units and its weight (beancount.core.convert.get_weight:
\* units * cost when the posting has a cost, else the units)
Posting(acct, units, weight) == [account |-> acct, units |-> units, weight |-> weight]
Plain(acct, n) == Posting(acct, Amount(n, USD), Amount(n, USD))

A_BRK == <<"Assets", "Brk">>
A_BND == <<"Assets", "Brk", "BND">>
I_BND == <<"Income", "Brk", "BND">>
E_OPEN == <<"Equity", "Open">>
LedgerAccounts == {A_BRK, A_BND, I_BND, E_OPEN}

\* The posting lists a transaction of the model ledger can have.
\*  1 a dividend booked into the fund (both legs map to one bucket under Map1)
\*  2 a transfer from the parent account itself into the fund below it, with a
\*    deposit from outside
\*  3 a share received at no cost: its weight is in STK and needs a price
\*  4 a share bought at cost: its weight is in USD, the holding is in STK
PostingLists == {
    <<Plain(A_BND, 10), Plain(I_BND, -10)>>,
    <<Plain(A_BRK, -20), Plain(A_BND, 10), Plain(E_OPEN, 10)>>,
    <<Posting(A_BND, Amount(1, STK), Amount(1, STK)), Plain(E_OPEN, -5)>>,
    <<Posting(A_BND, Amount(1, STK), Amount(10, USD)), Plain(A_BRK, -10)>> }

Transactions == [date : Dates, postings : PostingLists]

\* ledgers: up to MaxTxns transactions in chronological order (the loader sorts them)
Ledgers ==
    {l \in UNION {[1..n -> Transactions] : n \in 0..MaxTxns} :
        \A i \in 1..(Len(l) - 1) : l[i].date <= l[i + 1].date}

\* price maps: no STK price at all, or one STK price in USD older than every transaction
PriceMaps == {{}, {5}}

----------------------------------------------------------------------------
(* AccountMapper: get_asset_account *)

\* A compiled pattern of the model: a literal run of components, anchored at the
\* beginning of the name ("^Assets:Brk") or not ("Brk:BND").
Rule(anchored, lit, replacement) ==
    [anchored |-> anchored, lit |-> lit, replacement |-> replacement]

MatchesAt(rule, account, i) ==
    /\ rule.anchored => i = 1
    /\ i + Len(rule.lit) - 1 <= Len(account)
    /\ SubSeq(account, i, i + Len(rule.lit) - 1) = rule.lit

RECURSIVE SubnFrom(_, _, _)
\* re.Pattern.subn from position i on: every non-overlapping match, leftmost first,
\* is replaced; the result is the new text and the number of matches
SubnFrom(rule, account, i) ==
    IF i > Len(account) THEN [text |-> <<>>, num_matches |-> 0]
    ELSE IF MatchesAt(rule, account, i)
         THEN LET rest == SubnFrom(rule, account, i + Len(rule.lit))
              IN [text |-> rule.replacement \o rest.text,
                  num_matches |-> rest.num_matches + 1]
         ELSE LET rest == SubnFrom(rule, account, i + 1)
              IN [text |-> <<account[i]>> \o rest.text,
                  num_matches |-> rest.num_matches]

subn(rule, account) == SubnFrom(rule, account, 1)

RECURSIVE AssetAccountFrom(_, _, _)
AssetAccountFrom(account, rules, i) ==
    IF i > Len(rules) THEN {}
    ELSE LET r == subn(rules[i], account)
         IN IF r.num_matches > 0 THEN {r.text}
            ELSE AssetAccountFrom(account, rules, i + 1)

\* get_asset_account(account, asset_account_map): {} is None
get_asset_account(account, rules) == AssetAccountFrom(account, rules, 1)

\* beancount.core.account.parents: the account itself and every parent of it
parents(account) == {SubSeq(account, 1, n) : n \in 1..Len(account)}

\* the asset_account_map arguments of the model
Map1 == <<Rule(TRUE, <<"Assets", "Brk">>, <<"Assets", "Brk">>),
          Rule(TRUE, <<"Income", "Brk">>, <<"Assets", "Brk">>)>>
Map2 == <<Rule(FALSE, <<"Brk", "BND">>, <<"Fund">>)>>
AssetAccountMaps == {Map1, Map2}

----------------------------------------------------------------------------
(* Conversion and get_number *)

\* beancount.core.convert.convert_amount: with a price the amount in the target
\* currency, without one the amount unchanged
convert_amount(amt, target, prices) ==
    IF amt.currency = target THEN amt
    ELSE IF prices = {} THEN amt
    ELSE LET rate == CHOOSE r \in prices : TRUE
         IN Amount(amt.number * rate, target)

\* get_number without the test of the currency
get_number_unchecked(amt, cur) == [raised |-> FALSE, number |-> amt.number]

\* get_number: raises when the amount is not in the currency
get_number(amt, cur) ==
    IF amt.currency # cur THEN [raised |-> TRUE, number |-> 0]
    ELSE [raised |-> FALSE, number |-> amt.number]

\* Decimal.quantize(Decimal('.01')) of an amount in mills, in cents (ROUND_HALF_EVEN)
quantize(n) ==
    LET q == n \div 10
        r == n % 10
    IN IF r < 5 THEN q
       ELSE IF r > 5 THEN q + 1
       ELSE IF q % 2 = 0 THEN q ELSE q + 1

\* the value of a posting of an entry: get_number(convert_amount(get_weight(posting)))
PostingValue(posting, prices) ==
    get_number(convert_amount(posting.weight, currency, prices), currency)

----------------------------------------------------------------------------
(* CashflowAggregator: the loop over the transactions *)

Cashflow(date, amount, kind, entry) ==
    [date |-> date, amount |-> amount, kind |-> kind, entry |-> entry,
     inflow_accounts |-> {}, outflow_accounts |-> {}]

\* InWindow with the start date itself left out
InWindow_after_start(d, start, end) ==
    /\ \A s \in start : s < d
    /\ \A e \in end : d <= e

\* the two date tests at the head of the loop body
InWindow(d, start, end) ==
    /\ \A s \in start : s <= d
    /\ \A e \in end : d <= e

\* AddValue with "=" in the place of "+="
AddValue_assign(pending, accts, value) ==
    [a \in (DOMAIN pending) \cup accts |->
        IF a \in accts THEN value ELSE pending[a]]

\* pending_cashflow_by_asset_account[a].amount += value, for every a in accts
AddValue(pending, accts, value) ==
    [a \in (DOMAIN pending) \cup accts |->
        (IF a \in DOMAIN pending THEN pending[a] ELSE 0)
        + (IF a \in accts THEN value ELSE 0)]

RECURSIVE PendingFrom(_, _, _, _, _)
\* the loop over entry.postings from posting k on: raised as soon as one value is
\* not in the currency, else the pending amounts by asset account
PendingFrom(postings, k, rules, prices, pending) ==
    IF k > Len(postings) THEN [raised |-> FALSE, amounts |-> pending]
    ELSE LET value == PostingValue(postings[k], prices)
             asset_account == get_asset_account(postings[k].account, rules)
         IN IF value.raised THEN [raised |-> TRUE, amounts |-> pending]
            ELSE PendingFrom(postings, k + 1, rules, prices,
                    AddValue(pending, UNION {parents(a) : a \in asset_account},
                             value.number))

Pending(entry, rules, prices) == PendingFrom(entry.postings, 1, rules, prices, <<>>)

\* IsRecorded without the rounding to cents
IsRecorded_unrounded(amount) == amount # 0

\* the test that decides whether a pending cashflow is recorded
IsRecorded(amount) == quantize(amount) # 0

\* the postings of the entry that do not belong to asset_account
Outside(entry, rules, asset_account) ==
    {k \in 1..Len(entry.postings) :
        LET posting_asset_account == get_asset_account(entry.postings[k].account, rules)
        IN \/ posting_asset_account = {}
           \/ \E a \in posting_asset_account : asset_account \notin parents(a)}

\* the cashflow recorded for asset_account: the pending amount, with the accounts
\* of the outside postings noted by the sign of their weight
Recorded(entry, i, rules, asset_account, amount) ==
    LET out == Outside(entry, rules, asset_account)
    IN [Cashflow({entry.date}, amount, "txn", {i}) EXCEPT
          !.outflow_accounts =
              {entry.postings[k].account : k \in {j \in out : entry.postings[j].weight.number > 0}},
          !.inflow_accounts =
              {entry.postings[k].account : k \in {j \in out : entry.postings[j].weight.number <= 0}}]

\* cashflows_by_asset_account[a].append(cashflow[a]) for every a of the new cashflows
AppendAll(by_account, new) ==
    [a \in (DOMAIN by_account) \cup (DOMAIN new) |->
        IF a \notin DOMAIN new THEN by_account[a]
        ELSE IF a \in DOMAIN by_account THEN Append(by_account[a], new[a])
        ELSE <<new[a]>>]

\* cashflows_by_asset_account[a].insert(0, cashflow[a]) for every a of the new cashflows
InsertAll(by_account, new) ==
    [a \in (DOMAIN by_account) \cup (DOMAIN new) |->
        IF a \notin DOMAIN new THEN by_account[a]
        ELSE IF a \in DOMAIN by_account THEN <<new[a]>> \o by_account[a]
        ELSE <<new[a]>>]

Raise ==
    /\ pc' = "raised"
    /\ returned' = {}
    /\ UNCHANGED <<idx, cashflows_by_asset_account>>

\* one pass of "for entry in only_txns"
ProcessEntry ==
    /\ pc = "txns"
    /\ LET entry == entries[idx]
           pending == Pending(entry, asset_account_map, price_map)
           recorded == {a \in DOMAIN pending.amounts : IsRecorded(pending.amounts[a])}
       IN IF ~InWindow(entry.date, start_date_inclusive, end_date_inclusive)
          THEN /\ idx' = idx + 1
               /\ pc' = IF idx = Len(entries) THEN "start" ELSE "txns"
               /\ UNCHANGED <<cashflows_by_asset_account, returned>>
          ELSE IF pending.raised
          THEN Raise
          ELSE /\ cashflows_by_asset_account' =
                     AppendAll(cashflows_by_asset_account,
                               [a \in recorded |->
                                   Recorded(entry, idx, asset_account_map, a,
                                            pending.amounts[a])])
               /\ idx' = idx + 1
               /\ pc' = IF idx = Len(entries) THEN "start" ELSE "txns"
               /\ UNCHANGED returned
    /\ UNCHANGED <<entries, asset_account_map, start_date_inclusive,
                   end_date_inclusive, price_map>>
    /\ UNCHANGED <<mapper_vars, irr_vars, main_vars>>

----------------------------------------------------------------------------
(* BoundaryValuator: get_market_values_by_asset_account *)

Currencies == {USD, STK}

\* the entries realized for a cutoff date: all of them, or those dated before it
RealizedEntries(ledger, date) ==
    {i \in 1..Len(ledger) : \A d \in date : ledger[i].date < d}

\* the postings, as <<entry, posting>> index pairs, of a set of entries
PostingsOf(ledger, realized) ==
    {<<i, k>> \in (1..Len(ledger)) \X (1..3) :
        i \in realized /\ k <= Len(ledger[i].postings)}

\* beancount.core.realization.iter_children(realize(...)): the accounts posted to
\* and all their parents
RealAccounts(ledger, realized) ==
    UNION {parents(ledger[ik[1]].postings[ik[2]].account) :
             ik \in PostingsOf(ledger, realized)}

\* account_types.is_account_type(DEFAULT_ACCOUNT_TYPES.assets, account)
is_assets(account) == account[1] = "Assets"

\* compute_balance(real_account).reduce(convert_position, currency, price_map): the
\* units of the account and of all its sub-accounts, each converted, summed per
\* currency; a currency whose sum is zero holds no position
MarketValueInventory(ledger, realized, real_account, prices) ==
    LET mine == {ik \in PostingsOf(ledger, realized) :
                    IsPrefix(real_account, ledger[ik[1]].postings[ik[2]].account)}
        conv == [ik \in mine |->
                    convert_amount(ledger[ik[1]].postings[ik[2]].units, currency, prices)]
        total == [c \in Currencies |->
                    SumSet([ik \in mine |-> conv[ik].number],
                           {ik \in mine : conv[ik].currency = c})]
    IN [c \in {x \in Currencies : total[x] # 0} |-> total[c]]

\* ValuedAccounts that also passes over the accounts holding a position that did
\* not convert to the currency
ValuedAccounts_convertible_only(ledger, rules, realized, prices) ==
    {n \in RealAccounts(ledger, realized) :
        /\ is_assets(n)
        /\ get_asset_account(n, rules) # {}
        /\ MarketValueInventory(ledger, realized, n, prices) # <<>>
        /\ DOMAIN MarketValueInventory(ledger, realized, n, prices) = {currency}}

\* the real accounts the loop of get_market_values_by_asset_account gets a value for
ValuedAccounts(ledger, rules, realized, prices) ==
    {n \in RealAccounts(ledger, realized) :
        /\ is_assets(n)
        /\ get_asset_account(n, rules) # {}
        /\ MarketValueInventory(ledger, realized, n, prices) # <<>>}

\* get_only_position().units, handed to get_number: more than one position raises
OnlyPosition(inventory) ==
    IF Cardinality(DOMAIN inventory) > 1 THEN [raised |-> TRUE, number |-> 0]
    ELSE LET c == CHOOSE x \in DOMAIN inventory : TRUE
         IN get_number(Amount(inventory[c], c), currency)

get_market_values_by_asset_account(ledger, rules, date, prices) ==
    LET realized == RealizedEntries(ledger, date)
        valued == ValuedAccounts(ledger, rules, realized, prices)
        value == [n \in valued |->
                    OnlyPosition(MarketValueInventory(ledger, realized, n, prices))]
        keys == UNION {get_asset_account(n, rules) : n \in valued}
    IN [raised |-> \E n \in valued : value[n].raised,
        values |-> [b \in keys |->
                      SumSet([n \in valued |-> value[n].number],
                             {n \in valued : get_asset_account(n, rules) = {b}})]]

----------------------------------------------------------------------------
(* get_cashflows_by_asset_account after the loop *)

StartingBalance(date, market_value) ==
    Cashflow(date, market_value, "starting balance", {})

\* EndingBalance with the market value not negated
EndingBalance_not_negated(date, market_value) ==
    Cashflow(date, market_value, "ending balance", {})

EndingBalance(date, market_value) ==
    Cashflow(date, -market_value, "ending balance", {})

\* EndCutoff without the day added
EndCutoff_same_day(end) == end

\* the date handed to the ending valuation
EndCutoff(end) == {e + 1 : e \in end}

\* "if start_date_inclusive is not None: ... insert(0, cashflow)"
StartingBalances ==
    /\ pc = "start"
    /\ IF start_date_inclusive = {}
       THEN /\ pc' = "end"
            /\ UNCHANGED <<idx, cashflows_by_asset_account, returned>>
       ELSE LET mv == get_market_values_by_asset_account(
                         entries, asset_account_map, start_date_inclusive, price_map)
            IN IF mv.raised
               THEN Raise
               ELSE /\ cashflows_by_asset_account' =
                          InsertAll(cashflows_by_asset_account,
                                    [a \in DOMAIN mv.values |->
                                        StartingBalance(start_date_inclusive, mv.values[a])])
                    /\ pc' = "end"
                    /\ UNCHANGED <<idx, returned>>
    /\ UNCHANGED <<entries, asset_account_map, start_date_inclusive,
                   end_date_inclusive, price_map>>
    /\ UNCHANGED <<mapper_vars, irr_vars, main_vars>>

\* the ending valuation and "append(cashflow)"
EndingBalances ==
    /\ pc = "end"
    /\ LET mv == get_market_values_by_asset_account(
                    entries, asset_account_map, EndCutoff(end_date_inclusive), price_map)
       IN IF mv.raised
          THEN Raise
          ELSE /\ cashflows_by_asset_account' =
                     AppendAll(cashflows_by_asset_account,
                               [a \in DOMAIN mv.values |->
                                   EndingBalance(end_date_inclusive, mv.values[a])])
               /\ pc' = "return"
               /\ UNCHANGED <<idx, returned>>
    /\ UNCHANGED <<entries, asset_account_map, start_date_inclusive,
                   end_date_inclusive, price_map>>
    /\ UNCHANGED <<mapper_vars, irr_vars, main_vars>>

\* "return dict(cashflows_by_asset_account)"
Return ==
    /\ pc = "return"
    /\ returned' = {cashflows_by_asset_account}
    /\ pc' = "done"
    /\ UNCHANGED <<idx, cashflows_by_asset_account>>
    /\ UNCHANGED <<entries, asset_account_map, start_date_inclusive,
                   end_date_inclusive, price_map>>
    /\ UNCHANGED <<mapper_vars, irr_vars, main_vars>>

MapperIdle ==
    /\ m_account = <<>> /\ m_rules = <<>> /\ m_pc = "idle" /\ m_result = {}

IrrIdle ==
    /\ x_cashflows = <<>> /\ x_rate = 0 /\ x_pc = "idle" /\ x_value = 0
    /\ x_outcome = "none"

MainIdle == g_pc = "idle" /\ g_cashflows = {}

ExtractIdle ==
    /\ entries = <<>> /\ asset_account_map = <<>> /\ start_date_inclusive = {}
    /\ end_date_inclusive = {} /\ price_map = {} /\ pc = "idle" /\ idx = 1
    /\ cashflows_by_asset_account = <<>> /\ returned = {}

\* a call of get_cashflows_by_asset_account, before its loop; the window, when
\* both of its sides are given, does not end before it starts
Init ==
    /\ entries \in Ledgers
    /\ asset_account_map \in AssetAccountMaps
    /\ start_date_inclusive \in OptionalDates
    /\ end_date_inclusive \in
          {e \in OptionalDates : \A s \in start_date_inclusive : \A d \in e : s <= d}
    /\ price_map \in PriceMaps
    /\ pc = IF entries = <<>> THEN "start" ELSE "txns"
    /\ idx = 1
    /\ cashflows_by_asset_account = <<>>
    /\ returned = {}
    /\ MapperIdle
    /\ IrrIdle
    /\ MainIdle

Next == ProcessEntry \/ StartingBalances \/ EndingBalances \/ Return

Spec == Init /\ [][Next]_vars

----------------------------------------------------------------------------
(* Vocabulary of the properties of the extraction, read off the arguments *)

\* the mapping the call returned
Result == CHOOSE r \in returned : TRUE

EntryIds == 1..Len(entries)
PostingIds(i) == 1..Len(entries[i].postings)

\* start <= d <= end, an absent side imposing no bound
WithinWindow(d) ==
    /\ start_date_inclusive = {} \/ \E s \in start_date_inclusive : s <= d
    /\ end_date_inclusive = {} \/ \E e \in end_date_inclusive : d <= e

\* the asset account a posting resolves to, and its value in the target currency
Resolved(i, k) == get_asset_account(entries[i].postings[k].account, asset_account_map)
Converted(i, k) == convert_amount(entries[i].postings[k].weight, currency, price_map)

\* the buckets of a transaction: every resolved account and every ancestor of one
BucketsOf(i) ==
    {b \in UNION {{SubSeq(a, 1, n) : n \in 1..Len(a)} :
                    a \in UNION {Resolved(i, k) : k \in PostingIds(i)}} : TRUE}

\* the sum of the values of the postings of transaction i whose resolved account
\* lies in the subtree of b
SubtreeSum(i, b) ==
    SumSet([k \in PostingIds(i) |-> Converted(i, k).number],
           {k \in PostingIds(i) : \E a \in Resolved(i, k) : IsPrefix(b, a)})

\* the sum of the values of the postings of transaction i that resolve to b itself
DirectSum(i, b) ==
    SumSet([k \in PostingIds(i) |-> Converted(i, k).number],
           {k \in PostingIds(i) : Resolved(i, k) = {b}})

ChildBuckets(i, b) == {c \in BucketsOf(i) : Len(c) = Len(b) + 1 /\ IsPrefix(b, c)}

\* the sum of the portions of the child buckets of b for transaction i
ChildrenSum(i, b) ==
    SumSet([c \in ChildBuckets(i, b) |-> SubtreeSum(i, c)], ChildBuckets(i, b))

\* the positions in a cashflow list of the transaction cashflows of entry i
TxnCashflows(l, i) == {j \in 1..Len(l) : l[j].kind = "txn" /\ l[j].entry = {i}}

\* the transaction cashflows of entry i in bucket b of the result
Emitted(i, b) == IF b \in DOMAIN Result THEN TxnCashflows(Result[b], i) ELSE {}

\* some bucket of transaction i has a pending total that rounds to nonzero cents
Recordable(i) == \E b \in BucketsOf(i) : quantize(SubtreeSum(i, b)) # 0

HasCashflow(i) == \E b \in DOMAIN Result : TxnCashflows(Result[b], i) # {}

\* the market values the two boundary valuations compute
StartValues ==
    get_market_values_by_asset_account(
        entries, asset_account_map, start_date_inclusive, price_map).values
EndValues ==
    get_market_values_by_asset_account(
        entries, asset_account_map, EndCutoff(end_date_inclusive), price_map).values

Kinds(l) == {l[j].kind : j \in 1..Len(l)}
Last(l) == l[Len(l)]

----------------------------------------------------------------------------
(* C1 *)

----------------------------------------------------------------------------
(* C2 *)

\* C2, as stated: for every in-window transaction the cashflow emitted for a
\* bucket carries the sum of the values of the postings whose resolved account
\* lies in the bucket's subtree, and for a bucket with child buckets that amount
\* equals the sum of its child buckets' portions.
C2_AncestorEqualsChildren ==
    pc = "done" =>
        \A i \in EntryIds : \A b \in BucketsOf(i) : \A j \in Emitted(i, b) :
            /\ Result[b][j].amount = SubtreeSum(i, b)
            /\ ChildBuckets(i, b) # {} => Result[b][j].amount = ChildrenSum(i, b)

\* C2, amended: for every in-window transaction and every bucket of it (each
\* resolved account and each of its ancestors), the pending total is the sum of
\* the values of the postings whose resolved account lies in the bucket's
\* subtree, each counted once; when it rounds to nonzero cents exactly one
\* transaction cashflow with that amount is emitted for the bucket, and the
\* amount equals the sum of the child buckets' portions plus the values of the
\* postings that resolve to the bucket itself.
C2_AncestorEqualsSubtree ==
    pc = "done" =>
        \A i \in EntryIds : \A b \in BucketsOf(i) :
            /\ (WithinWindow(entries[i].date) /\ quantize(SubtreeSum(i, b)) # 0)
                   => Cardinality(Emitted(i, b)) = 1
            /\ \A j \in Emitted(i, b) :
                   /\ Result[b][j].amount = SubtreeSum(i, b)
                   /\ Result[b][j].amount = ChildrenSum(i, b) + DirectSum(i, b)

\* C2 witness: a returned mapping in which an ancestor bucket holds the cashflow
\* of a transaction that has one posting on the ancestor itself and one in a
\* child bucket, so that the ancestor's amount differs from the child's.
C2_Witness ==
    /\ pc = "done"
    /\ \E i \in EntryIds : \E b \in BucketsOf(i) :
          /\ Emitted(i, b) # {}
          /\ ChildBuckets(i, b) # {}
          /\ DirectSum(i, b) # 0
          /\ ChildrenSum(i, b) # 0
          /\ \E c \in ChildBuckets(i, b) : Emitted(i, c) # {}

----------------------------------------------------------------------------
(* C3 *)

\* every posting of transaction i resolves, all to one asset account, and the
\* values sum to zero in the target currency
InternalTransfer(i) ==
    /\ \E a \in BucketsOf(i) : \A k \in PostingIds(i) : Resolved(i, k) = {a}
    /\ \A k \in PostingIds(i) : Converted(i, k).currency = currency
    /\ SumSet([k \in PostingIds(i) |-> Converted(i, k).number], PostingIds(i)) = 0

\* C3: an in-window transaction whose postings sum to zero and all resolve to
\* one bucket has a pending total of exactly zero for that bucket and its
\* ancestors and leaves no transaction cashflow in any bucket; and every
\* transaction cashflow of the result has an amount that rounds to nonzero cents.
C3_InternalTransfersNetOut ==
    pc = "done" =>
        /\ \A i \in EntryIds :
              (WithinWindow(entries[i].date) /\ InternalTransfer(i)) =>
                  /\ \A b \in BucketsOf(i) :
                        Pending(entries[i], asset_account_map, price_map).amounts[b] = 0
                  /\ ~HasCashflow(i)
        /\ \A b \in DOMAIN Result : \A j \in 1..Len(Result[b]) :
              Result[b][j].kind = "txn" => quantize(Result[b][j].amount) # 0

\* C3 witness: a returned mapping with a transaction cashflow, from a ledger
\* holding an in-window internal transfer and an in-window transaction whose
\* pending total is nonzero and rounds to zero cents.
C3_Witness ==
    /\ pc = "done"
    /\ \E i \in EntryIds : WithinWindow(entries[i].date) /\ InternalTransfer(i)
    /\ \E i \in EntryIds :
          /\ WithinWindow(entries[i].date)
          /\ \E b \in BucketsOf(i) : SubtreeSum(i, b) # 0 /\ quantize(SubtreeSum(i, b)) = 0
          /\ ~HasCashflow(i)

----------------------------------------------------------------------------
(* C4 *)

\* C4: a transaction has a transaction cashflow in some bucket of the result
\* exactly when its date lies in [start, end], an absent side imposing no bound,
\* and one of its pending totals rounds to nonzero cents; a transaction outside
\* the window has none.
C4_WindowFilter ==
    pc = "done" =>
        \A i \in EntryIds :
            /\ HasCashflow(i) => WithinWindow(entries[i].date)
            /\ (WithinWindow(entries[i].date) /\ Recordable(i)) => HasCashflow(i)
            /\ \A b \in DOMAIN Result : \A j \in TxnCashflows(Result[b], i) :
                  Result[b][j].date = {entries[i].date}

\* C4 witness: a returned mapping with the cashflow of a transaction dated
\* exactly start, or exactly end, and none of a recordable transaction dated the
\* day before start, or the day after end.
C4_Witness ==
    /\ pc = "done"
    /\ \E i \in EntryIds : \E j \in EntryIds :
          /\ HasCashflow(i)
          /\ Recordable(j) /\ ~HasCashflow(j)
          /\ \/ /\ start_date_inclusive = {entries[i].date}
                /\ start_date_inclusive = {entries[j].date + 1}
             \/ /\ end_date_inclusive = {entries[i].date}
                /\ end_date_inclusive = {entries[j].date - 1}

----------------------------------------------------------------------------
(* C6 *)

\* a posting of transaction i has a converted value that is not in the currency
PostingFault(i) == \E k \in PostingIds(i) : Converted(i, k).currency # currency

\* a valued account has, at the cutoff, a converted balance that is not one
\* amount in the currency
HoldingFault(date) ==
    LET realized == RealizedEntries(entries, date) IN
    \E n \in ValuedAccounts(entries, asset_account_map, realized, price_map) :
        DOMAIN MarketValueInventory(entries, realized, n, price_map) # {currency}

\* C6: the call goes on past a conversion only when the converted value is in
\* the target currency: past the loop no in-window posting has a foreign value,
\* past each boundary valuation no valued balance has one; a call that raised
\* returns no mapping, a mapping is returned only by a call that ran to its end,
\* and no cashflow ever recorded comes from a transaction with an offending
\* posting.
C6_IntegrityFaultAborts ==
    /\ pc = "raised" => returned = {}
    /\ returned # {} => pc = "done"
    /\ \A i \in EntryIds :
          (WithinWindow(entries[i].date) /\ PostingFault(i))
              => /\ pc \in {"txns", "raised"}
                 /\ idx <= i
    /\ pc \in {"end", "return", "done"} =>
          ~(start_date_inclusive # {} /\ HoldingFault(start_date_inclusive))
    /\ pc \in {"return", "done"} => ~HoldingFault(EndCutoff(end_date_inclusive))
    /\ \A b \in DOMAIN cashflows_by_asset_account :
          \A j \in 1..Len(cashflows_by_asset_account[b]) :
              \A i \in cashflows_by_asset_account[b][j].entry : ~PostingFault(i)

\* C6 witness: a call that raised on a posting of the second transaction, after
\* it had recorded cashflows of the first, and returned nothing.
C6_Witness ==
    /\ pc = "raised"
    /\ returned = {}
    /\ cashflows_by_asset_account # <<>>
    /\ idx \in EntryIds
    /\ WithinWindow(entries[idx].date)
    /\ PostingFault(idx)

----------------------------------------------------------------------------
(* C7 *)

\* the net units in commodity c that real account n and its sub-accounts hold
\* over the realized entries
NetUnits(n, realized, c) ==
    LET mine == {ik \in PostingsOf(entries, realized) :
                    /\ IsPrefix(n, entries[ik[1]].postings[ik[2]].account)
                    /\ entries[ik[1]].postings[ik[2]].units.currency = c}
    IN SumSet([ik \in mine |-> entries[ik[1]].postings[ik[2]].units.number], mine)

\* at the cutoff an Assets account that resolves to a bucket holds units of the
\* commodity and the price map has no price for it
UnpricedHolding(date) ==
    /\ price_map = {}
    /\ LET realized == RealizedEntries(entries, date) IN
       \E n \in RealAccounts(entries, realized) :
          /\ n[1] = "Assets"
          /\ get_asset_account(n, asset_account_map) # {}
          /\ NetUnits(n, realized, STK) # 0

\* the call got as far as the boundary valuations
LoopDone == pc \in {"start", "end", "return", "done"} \/ (pc = "raised" /\ idx > Len(entries))

\* C7, as stated: when a boundary valuation meets holdings that no price
\* converts, the call does not abort: it still completes.
C7_UnpricedHoldingIsSkipped ==
    (/\ LoopDone
     /\ \/ start_date_inclusive # {} /\ UnpricedHolding(start_date_inclusive)
        \/ UnpricedHolding(EndCutoff(end_date_inclusive)))
        => pc # "raised"

\* C7, amended: a conversion fault at a boundary is fatal for the whole call.
\* When start is supplied and an Assets account resolving to a bucket holds,
\* before start, units that no price converts, the call never gets past the
\* starting valuation; when such holdings exist at the end cutoff it never gets
\* past the ending valuation; in both cases nothing is returned, the cashflows
\* of the other buckets included.
C7_UnpricedHoldingAborts ==
    /\ (pc \in {"end", "return", "done"} \/ returned # {}) =>
          ~(start_date_inclusive # {} /\ UnpricedHolding(start_date_inclusive))
    /\ (pc \in {"return", "done"} \/ returned # {}) =>
          ~UnpricedHolding(EndCutoff(end_date_inclusive))

\* C7 witness: a call whose loop recorded cashflows and which raised in a
\* boundary valuation over holdings without a price, returning nothing.
C7_Witness ==
    /\ pc = "raised"
    /\ idx > Len(entries)
    /\ returned = {}
    /\ cashflows_by_asset_account # <<>>
    /\ \/ start_date_inclusive # {} /\ UnpricedHolding(start_date_inclusive)
       \/ UnpricedHolding(EndCutoff(end_date_inclusive))

----------------------------------------------------------------------------
(* C10 *)

\* the transactions dated strictly before day d, and those dated on or before it
EntriesBefore(d) == LET Test(e) == e.date < d IN SelectSeq(entries, Test)
EntriesUpTo(d) == LET Test(e) == e.date <= d IN SelectSeq(entries, Test)

\* the market values of a ledger valued as a whole
ValuesOf(ledger) ==
    get_market_values_by_asset_account(ledger, asset_account_map, {}, price_map).values

\* the amounts of the starting balances, and the negated amounts of the ending
\* balances, of a returned mapping
StartingAmounts(r) ==
    [b \in {x \in DOMAIN r : r[x][1].kind = "starting balance"} |-> r[b][1].amount]
EndingAmounts(r) ==
    [b \in {x \in DOMAIN r : Last(r[x]).kind = "ending balance"} |-> -Last(r[b]).amount]

ReflectedInStart(i) == \E s \in start_date_inclusive : entries[i].date < s
ReflectedInEnd(i) == \A e \in end_date_inclusive : entries[i].date <= e

\* the values of the boundary cashflows are those of the ledger cut at the bounds
CutoffsAsStated ==
    /\ \A s \in start_date_inclusive : StartingAmounts(Result) = ValuesOf(EntriesBefore(s))
    /\ start_date_inclusive = {} => StartingAmounts(Result) = <<>>
    /\ \A e \in end_date_inclusive : EndingAmounts(Result) = ValuesOf(EntriesUpTo(e))
    /\ end_date_inclusive = {} => EndingAmounts(Result) = ValuesOf(entries)

\* C10, as stated: the starting balances value exactly the transactions dated
\* before start, the ending balances exactly those dated on or before end; every
\* transaction is either reflected in the starting balance or eligible as an
\* in-window cashflow, never both; and a transaction dated exactly end (in a
\* window whose start is not after its end) is an in-window cashflow and in the
\* ending valuation.
C10_EveryTransactionInOnePart ==
    pc = "done" =>
        /\ CutoffsAsStated
        /\ \A i \in EntryIds :
              /\ ReflectedInStart(i) # WithinWindow(entries[i].date)
              /\ HasCashflow(i) => WithinWindow(entries[i].date)
              /\ end_date_inclusive = {entries[i].date} =>
                    /\ ReflectedInEnd(i)
                    /\ (\A s \in start_date_inclusive : s <= entries[i].date)
                          => /\ WithinWindow(entries[i].date)
                             /\ Recordable(i) => HasCashflow(i)

\* C10, amended: the cutoffs are as stated; no transaction is both reflected in
\* the starting balance and a source of an in-window cashflow; when start is
\* supplied every transaction dated on or before end is one of the two, while a
\* transaction dated after end is not in the window and not in the ending
\* valuation; and a transaction dated exactly end is in the ending valuation,
\* and is an in-window cashflow provided start is absent or not after end.
C10_CutoffsPartitionUpToEnd ==
    pc = "done" =>
        /\ CutoffsAsStated
        /\ \A i \in EntryIds :
              /\ ~(ReflectedInStart(i) /\ HasCashflow(i))
              /\ ~(ReflectedInStart(i) /\ WithinWindow(entries[i].date))
              /\ (start_date_inclusive # {} /\ ReflectedInEnd(i))
                    => (ReflectedInStart(i) \/ WithinWindow(entries[i].date))
              /\ ~ReflectedInEnd(i) => ~HasCashflow(i)
              /\ end_date_inclusive = {entries[i].date} =>
                    /\ ReflectedInEnd(i)
                    /\ (\A s \in start_date_inclusive : s <= entries[i].date)
                          => /\ WithinWindow(entries[i].date)
                             /\ Recordable(i) => HasCashflow(i)

\* C10 witness: a returned mapping from a ledger with a transaction dated before
\* start, valued in a starting balance, and one dated exactly end that has a
\* cashflow and is valued in an ending balance.
C10_Witness ==
    /\ pc = "done"
    /\ \E i \in EntryIds : \E j \in EntryIds :
          /\ ReflectedInStart(i) /\ ~HasCashflow(i)
          /\ end_date_inclusive = {entries[j].date} /\ HasCashflow(j)
          /\ StartingAmounts(Result) # <<>>
          /\ StartingAmounts(Result) # EndingAmounts(Result)
          /\ \A s \in start_date_inclusive :
                ValuesOf(EntriesUpTo(entries[j].date)) # ValuesOf(EntriesBefore(entries[j].date))

----------------------------------------------------------------------------
(* get_asset_account on its own *)

MapperAccounts == LedgerAccounts \cup {<<"Assets">>}

\* the rules of the model: a literal pattern, anchored or not, and a replacement
Rules ==
    {Rule(anchored, lit, replacement) :
        anchored \in BOOLEAN,
        lit \in {<<"Assets">>, <<"Assets", "Brk">>, <<"Brk">>, <<"BND">>},
        replacement \in {<<"Fund">>, <<"Assets", "Pf">>}}

\* asset_account_map arguments: up to MaxRules rules in declaration order, no
\* pattern twice (the patterns are the keys of a dict)
RuleLists ==
    {l \in UNION {[1..n -> Rules] : n \in 0..MaxRules} :
        \A i \in 1..Len(l) : \A j \in 1..Len(l) :
            (i # j) => (l[i].anchored # l[j].anchored \/ l[i].lit # l[j].lit)}

InitMapper ==
    /\ m_account \in MapperAccounts
    /\ m_rules \in RuleLists
    /\ m_pc = "call"
    /\ m_result = {}
    /\ ExtractIdle
    /\ IrrIdle
    /\ MainIdle

\* a call of get_asset_account
Resolve ==
    /\ m_pc = "call"
    /\ m_result' = get_asset_account(m_account, m_rules)
    /\ m_pc' = "done"
    /\ UNCHANGED <<m_account, m_rules>>
    /\ UNCHANGED <<extract_vars, irr_vars, main_vars>>

NextMapper == Resolve

SpecMapper == InitMapper /\ [][NextMapper]_vars

----------------------------------------------------------------------------
(* C5 *)

\* the rules whose pattern matches a prefix of the account name
PrefixRules(account, rules) == {i \in 1..Len(rules) : IsPrefix(rules[i].lit, account)}

\* C5: get_asset_account returns nothing when no rule's pattern matches a
\* prefix of the account name, and otherwise the target name that the first such
\* rule in declaration order gives (the name with the matched prefix replaced);
\* a pattern that occurs only further on in the name is no match.
C5_FirstPrefixRuleWins ==
    m_pc = "done" =>
        LET matching == PrefixRules(m_account, m_rules) IN
        IF matching = {} THEN m_result = {}
        ELSE LET first == CHOOSE i \in matching : \A j \in matching : i <= j
                 r == m_rules[first]
             IN m_result =
                  {r.replacement \o SubSeq(m_account, Len(r.lit) + 1, Len(m_account))}

----------------------------------------------------------------------------
(* ReturnSolver: xnpv and xirr on their own *)

\* the day count of a year in the exponent of xnpv
DaysPerYear == 365

\* A cashflow of the solver is the tuple <<date, amount>>. The dates of the model
\* are whole years apart, so that (t - t0).days / 365.0 is a whole number, and
\* the rates of the model are 0 and 1 (100%).
FlowDates == {y * DaysPerYear : y \in 0..MaxYears}
FlowAmounts == {-8, 4, 8}
Flows == FlowDates \X FlowAmounts
FlowLists == UNION {[1..n -> Flows] : n \in 0..MaxFlows}
Rates == {0, 1}

RECURSIVE Pow(_, _)
Pow(b, e) == IF e = 0 THEN 1 ELSE b * Pow(b, e - 1)

RECURSIVE InsertByDate(_, _)
\* e put behind the elements of a date-ordered list that are not dated after it
InsertByDate(sorted, e) ==
    IF sorted = <<>> THEN <<e>>
    ELSE IF Head(sorted)[1] <= e[1] THEN <<Head(sorted)>> \o InsertByDate(Tail(sorted), e)
    ELSE <<e>> \o sorted

RECURSIVE SortedByDate(_)
\* sorted(cashflows, key = lambda x: x[0]): ascending dates, equal dates in input order
SortedByDate(cashflows) ==
    IF cashflows = <<>> THEN <<>>
    ELSE InsertByDate(SortedByDate(SubSeq(cashflows, 1, Len(cashflows) - 1)),
                      cashflows[Len(cashflows)])

\* xnpv(rate, cashflows). chron_order[0] raises IndexError on an empty list. The
\* value is kept as an integer: it is the sum of cf / (1 + rate) ** years times
\* (1 + rate) ** MaxYears, which is the sum itself at rate 0.
xnpv(rate, cashflows) ==
    LET chron_order == SortedByDate(cashflows) IN
    IF chron_order = <<>> THEN [raised |-> TRUE, value |-> 0]
    ELSE LET t0 == chron_order[1][1]
             years(k) == (chron_order[k][1] - t0) \div DaysPerYear
         IN [raised |-> FALSE,
             value |-> SumSeq([k \in 1..Len(chron_order) |->
                                 chron_order[k][2] * Pow(1 + rate, MaxYears - years(k))])]

\* the net present value does not depend on the rate: the amounts dated after
\* the first date cancel date by date
ConstantInRate(cashflows) ==
    LET chron_order == SortedByDate(cashflows)
        t0 == chron_order[1][1]
    IN \A d \in FlowDates :
          d > t0 =>
             SumSet([k \in 1..Len(chron_order) |-> chron_order[k][2]],
                    {k \in 1..Len(chron_order) : chron_order[k][1] = d}) = 0

InitIrr ==
    /\ x_cashflows \in FlowLists
    /\ x_rate \in Rates
    /\ x_pc = "call"
    /\ x_value = 0
    /\ x_outcome = "none"
    /\ ExtractIdle
    /\ MapperIdle
    /\ MainIdle

\* a call of xnpv(x_rate, x_cashflows)
CallXnpv ==
    /\ x_pc = "call"
    /\ LET r == xnpv(x_rate, x_cashflows) IN
       /\ x_outcome' = IF r.raised THEN "IndexError" ELSE "value"
       /\ x_value' = r.value
    /\ x_pc' = "xnpv_done"
    /\ UNCHANGED <<x_cashflows, x_rate>>
    /\ UNCHANGED <<extract_vars, mapper_vars, main_vars>>

\* a call of xirr(x_cashflows): optimize.newton first evaluates the function at
\* the guess, and an exception of xnpv, which is raised at every rate alike,
\* leaves xirr as it is
CallXirr ==
    /\ x_pc = "call"
    /\ IF xnpv(x_rate, x_cashflows).raised
       THEN x_outcome' = "IndexError" /\ x_pc' = "xirr_done"
       ELSE x_outcome' = "none" /\ x_pc' = "newton"
    /\ UNCHANGED <<x_cashflows, x_rate, x_value>>
    /\ UNCHANGED <<extract_vars, mapper_vars, main_vars>>

\* the secant iteration of optimize.newton: two equal function values end it
\* with RuntimeError (NoConvergence); otherwise the floating-point iteration ends
\* with a rate, with RuntimeError or with OverflowError
Newton ==
    /\ x_pc = "newton"
    /\ IF ConstantInRate(x_cashflows)
       THEN x_outcome' = "NoConvergence"
       ELSE x_outcome' \in {"rate", "NoConvergence", "Overflow"}
    /\ x_pc' = "xirr_done"
    /\ UNCHANGED <<x_cashflows, x_rate, x_value>>
    /\ UNCHANGED <<extract_vars, mapper_vars, main_vars>>

NextIrr == CallXnpv \/ CallXirr \/ Newton

SpecIrr == InitIrr /\ [][NextIrr]_vars

----------------------------------------------------------------------------
(* C8 *)

\* the input has no root: no element, one element, or amounts all of one sign
NoRoot(cashflows) ==
    \/ Len(cashflows) <= 1
    \/ \A k \in 1..Len(cashflows) : cashflows[k][2] > 0
    \/ \A k \in 1..Len(cashflows) : cashflows[k][2] < 0

\* C8: for a cashflow list with no element, with one element or with amounts all
\* of one sign, xirr ends with NoConvergence: not with a rate, not with Overflow,
\* not with any other failure.
C8_NoRootIsNoConvergence ==
    (x_pc = "xirr_done" /\ NoRoot(x_cashflows)) => x_outcome = "NoConvergence"

----------------------------------------------------------------------------
(* C9 *)

\* C9: for every cashflow list, the empty one included, xnpv at rate 0 returns
\* the plain sum of the amounts in input order.
C9_ZeroRateIsPlainSum ==
    (x_pc = "xnpv_done" /\ x_rate = 0) =>
        /\ x_outcome = "value"
        /\ x_value = SumSeq([k \in 1..Len(x_cashflows) |-> x_cashflows[k][2]])

----------------------------------------------------------------------------
(* get_cashflows and the branch of the main program that reports one rate *)

placeholder_asset_account == <<"Assets", "_AssetAccountForCashflows">>

\* interesting_accounts and internal_accounts: lists of patterns that match at the
\* beginning of account names ("^Assets:Brk:BND"), given by their literal
InterestingAccounts == {<<A_BND>>, <<A_BRK>>, <<<<"Assets", "Cash">>>>}
InternalAccounts == {<<>>, <<I_BND>>}

\* dict((pattern, placeholder_asset_account)
\*      for pattern in interesting_accounts + internal_accounts)
PlaceholderMap(interesting_accounts, internal_accounts) ==
    LET patterns == interesting_accounts \o internal_accounts
    IN [k \in 1..Len(patterns) |-> Rule(TRUE, patterns[k], placeholder_asset_account)]

\* a run of the main program without --asset-account-map, at the call of
\* get_cashflows: date_to is always a date (today when no --to is given)
InitGet ==
    /\ entries \in Ledgers
    /\ asset_account_map \in
          {PlaceholderMap(i, n) : i \in InterestingAccounts, n \in InternalAccounts}
    /\ start_date_inclusive \in OptionalDates
    /\ end_date_inclusive \in
          {{d} : d \in {e \in Dates : \A s \in start_date_inclusive : s <= e}}
    /\ price_map \in PriceMaps
    /\ pc = IF entries = <<>> THEN "start" ELSE "txns"
    /\ idx = 1
    /\ cashflows_by_asset_account = <<>>
    /\ returned = {}
    /\ g_pc = "extract"
    /\ g_cashflows = {}
    /\ MapperIdle
    /\ IrrIdle

\* get_cashflows: "return get_cashflows_by_asset_account(...)[placeholder_asset_account]",
\* the subscript of a plain dict, which raises KeyError for a key it does not hold
Subscript ==
    /\ g_pc = "extract"
    /\ pc = "done"
    /\ IF placeholder_asset_account \in DOMAIN Result
       THEN /\ g_cashflows' = {Result[placeholder_asset_account]}
            /\ g_pc' = "returned"
       ELSE /\ g_cashflows' = {}
            /\ g_pc' = "KeyError"
    /\ UNCHANGED <<extract_vars, mapper_vars, irr_vars>>

\* an exception of get_cashflows_by_asset_account passes through get_cashflows
Propagate ==
    /\ g_pc = "extract"
    /\ pc = "raised"
    /\ g_pc' = "raised"
    /\ UNCHANGED g_cashflows
    /\ UNCHANGED <<extract_vars, mapper_vars, irr_vars>>

\* "if cashflows: r = xirr(...) ... else: logging.error('No cashflows found ...')"
Report ==
    /\ g_pc = "returned"
    /\ g_pc' = IF g_cashflows # {<<>>} THEN "xirr" ELSE "no cashflows"
    /\ UNCHANGED g_cashflows
    /\ UNCHANGED <<extract_vars, mapper_vars, irr_vars>>

NextGet ==
    \/ ProcessEntry \/ StartingBalances \/ EndingBalances \/ Return
    \/ Subscript \/ Propagate \/ Report

SpecGet == InitGet /\ [][NextGet]_vars

----------------------------------------------------------------------------
(* C11 *)

\* the requested accounts have no transaction cashflow in the window and no
\* starting or ending balance: no in-window transaction has a total for the
\* placeholder bucket that rounds to nonzero cents, and neither boundary
\* valuation has a value for the bucket
ZeroCashflows ==
    /\ \A i \in EntryIds :
          WithinWindow(entries[i].date) =>
              \/ placeholder_asset_account \notin BucketsOf(i)
              \/ quantize(SubtreeSum(i, placeholder_asset_account)) = 0
    /\ start_date_inclusive # {} => placeholder_asset_account \notin DOMAIN StartValues
    /\ placeholder_asset_account \notin DOMAIN EndValues

\* C11: when the requested accounts have no cashflow at all and the extraction
\* ran to its end, get_cashflows does not fail and hands back the empty list,
\* and the main program takes the "No cashflows found" branch: no failure, no
\* rate computed.
C11_EmptyResultIsReported ==
    (pc = "done" /\ ZeroCashflows) =>
        /\ g_pc \in {"extract", "returned", "no cashflows"}
        /\ g_pc # "extract" => g_cashflows = {<<>>}

====
